---- MODULE Spec2Model ----
(***************************************************************************)
(* PDF Hub: the document operation service (backend/pdf_service.py) and    *)
(* its UI bridge (main.py).                                                *)
(*                                                                         *)
(* Strings of the program (paths, range expressions, page texts) are       *)
(* sequences of one-character strings, so that split, replace, strip,      *)
(* int(), basename, splitext and join are computed as Python computes      *)
(* them.  A document on disk is its ordered sequence of pages.             *)
(***************************************************************************)
EXTENDS Integers, Sequences, FiniteSets, TLC

VARIABLES
    fs,         \* the files on disk: path -> content
    dirs,       \* the directories on disk
    last,       \* the last call of the service: its arguments, outcome and effects
    prev,       \* the call before it
    calls,      \* how many calls have been made
    reply,      \* what the UI bridge returned for the last call made through it
    parse,      \* the last call of _parse_page_range: its arguments and outcome
    threads     \* the calls under way when two callers are in the service at once

vars == <<fs, dirs, last, prev, calls, reply, parse, threads>>

-----------------------------------------------------------------------------
(* Bounds of the model *)

\* most calls of the UI bridge in a run of the bridge
MaxApiCalls == 1

\* most pages of the document compress_pdf is called on, on its own
MaxCompressPages == 2

\* longest range expression enumerated exhaustively over ExprAlphabet
MaxExprLen == 4
\* largest page count of the document a range expression is parsed against
MaxTotalPages == 3
\* how many calls of the service one run makes
MaxCalls == 2
\* longest document text is extracted from, enumerated exhaustively over TextPages
MaxTextPages == 3

-----------------------------------------------------------------------------
(* Python string primitives *)

Range(s) == {s[i] : i \in 1..Len(s)}

DigitChars == {"0", "1", "2", "3", "4", "5", "6", "7", "8", "9"}

DigitVal(c) ==
    CASE c = "0" -> 0 [] c = "1" -> 1 [] c = "2" -> 2 [] c = "3" -> 3
      [] c = "4" -> 4 [] c = "5" -> 5 [] c = "6" -> 6 [] c = "7" -> 7
      [] c = "8" -> 8 [] c = "9" -> 9

DigitChar(d) ==
    CASE d = 0 -> "0" [] d = 1 -> "1" [] d = 2 -> "2" [] d = 3 -> "3"
      [] d = 4 -> "4" [] d = 5 -> "5" [] d = 6 -> "6" [] d = 7 -> "7"
      [] d = 8 -> "8" [] d = 9 -> "9"

\* the characters str.strip() and int() treat as whitespace
WhitespaceChars == {" ", "\t", "\n", "\r", "\f"}

\* str.replace(old, '') for a one-character old
RemoveChar(s, old) == SelectSeq(s, LAMBDA c : c # old)

\* the position of the first sep in s, 0 when there is none
FirstIndex(s, sep) ==
    IF sep \in Range(s)
    THEN CHOOSE i \in 1..Len(s) : s[i] = sep /\ \A j \in 1..(i - 1) : s[j] # sep
    ELSE 0

\* the position of the last sep in s, 0 when there is none
LastIndex(s, sep) ==
    IF sep \in Range(s)
    THEN CHOOSE i \in 1..Len(s) : s[i] = sep /\ \A j \in (i + 1)..Len(s) : s[j] # sep
    ELSE 0

RECURSIVE Split(_, _)
\* str.split(sep) for a one-character sep: always at least one piece
Split(s, sep) ==
    LET i == FirstIndex(s, sep)
    IN  IF i = 0 THEN <<s>>
        ELSE <<SubSeq(s, 1, i - 1)>> \o Split(SubSeq(s, i + 1, Len(s)), sep)

RECURSIVE LStrip(_)
LStrip(s) ==
    IF s # <<>> /\ Head(s) \in WhitespaceChars THEN LStrip(Tail(s)) ELSE s

RECURSIVE RStrip(_)
RStrip(s) ==
    IF s # <<>> /\ s[Len(s)] \in WhitespaceChars
    THEN RStrip(SubSeq(s, 1, Len(s) - 1)) ELSE s

\* str.strip()
Strip(s) == LStrip(RStrip(s))

RECURSIVE DigitsValue(_)
\* the value of a digit string with its underscores dropped
DigitsValue(s) ==
    IF s = <<>> THEN 0
    ELSE 10 * DigitsValue(SubSeq(s, 1, Len(s) - 1)) + DigitVal(s[Len(s)])

\* the body of an integer literal: digits, single underscores between digits only
IsIntBody(s) ==
    /\ s # <<>>
    /\ Range(s) \subseteq DigitChars \cup {"_"}
    /\ s[1] # "_"
    /\ s[Len(s)] # "_"
    /\ \A i \in 1..(Len(s) - 1) : ~(s[i] = "_" /\ s[i + 1] = "_")

\* int(s): surrounding whitespace dropped, an optional sign, then the body;
\* anything else raises ValueError (ok = FALSE)
PyInt(s) ==
    LET t    == Strip(s)
        sign == IF t # <<>> /\ t[1] = "-" THEN -1 ELSE 1
        body == IF t # <<>> /\ t[1] \in {"+", "-"} THEN Tail(t) ELSE t
    IN  IF IsIntBody(body)
        THEN [ok |-> TRUE, val |-> sign * DigitsValue(RemoveChar(body, "_"))]
        ELSE [ok |-> FALSE, val |-> 0]

RECURSIVE NatToStr(_)
NatToStr(n) ==
    IF n < 10 THEN <<DigitChar(n)>>
    ELSE Append(NatToStr(n \div 10), DigitChar(n % 10))

\* str(n) for an integer
IntToStr(n) == IF n < 0 THEN <<"-">> \o NatToStr(-n) ELSE NatToStr(n)

\* range(a, b + 1) as a list
Interval(a, b) == [i \in 1..(b - a + 1) |-> a + i - 1]

-----------------------------------------------------------------------------
(* Outcomes: a returned value or a raised exception.  A message is its      *)
(* format string with the values put in its holes.                         *)

Msg(fmt, args) == [fmt |-> fmt, args |-> args]

NoMsg == Msg("", <<>>)

\* the message of the ValueError int() raises
IntErrorMsg(tok) ==
    Msg("invalid literal for int() with base 10: {!r}", <<<<"literal", tok>>>>)

\* the message of the ValueError unpacking 'start, end = ...' raises
UnpackErrorMsg == Msg("too many values to unpack (expected 2)", <<>>)

-----------------------------------------------------------------------------
(* PdfService._parse_page_range *)

ParseOk(pages) == [ok |-> TRUE, pages |-> pages, exc |-> "", msg |-> NoMsg]

ParseFail(exc, msg) == [ok |-> FALSE, pages |-> <<>>, exc |-> exc, msg |-> msg]

\* ParseDashed with the end page left out of the expansion: range(start, end)
ParseDashedExclusive(part, total_pages) ==
    LET pieces == Split(part, "-")
    IN  IF Len(pieces) # 2 THEN ParseFail("ValueError", UnpackErrorMsg)
        ELSE LET start == PyInt(pieces[1])
                 end   == PyInt(pieces[2])
             IN  IF ~start.ok THEN ParseFail("ValueError", IntErrorMsg(pieces[1]))
                 ELSE IF ~end.ok THEN ParseFail("ValueError", IntErrorMsg(pieces[2]))
                 ELSE IF start.val < 1 \/ end.val > total_pages \/ start.val > end.val
                 THEN ParseFail("ValueError",
                          Msg("Invalid range: {part} (PDF has {total_pages} pages)",
                              << <<"part", part>>,
                                 <<"total_pages", IntToStr(total_pages)>> >>))
                 ELSE ParseOk(Interval(start.val, end.val - 1))

\* the branch of a part that holds a dash
ParseDashed(part, total_pages) ==
    LET pieces == Split(part, "-")
    IN  IF Len(pieces) # 2 THEN ParseFail("ValueError", UnpackErrorMsg)
        ELSE LET start == PyInt(pieces[1])
                 end   == PyInt(pieces[2])
             IN  IF ~start.ok THEN ParseFail("ValueError", IntErrorMsg(pieces[1]))
                 ELSE IF ~end.ok THEN ParseFail("ValueError", IntErrorMsg(pieces[2]))
                 ELSE IF start.val < 1 \/ end.val > total_pages \/ start.val > end.val
                 THEN ParseFail("ValueError",
                          Msg("Invalid range: {part} (PDF has {total_pages} pages)",
                              << <<"part", part>>,
                                 <<"total_pages", IntToStr(total_pages)>> >>))
                 ELSE ParseOk(Interval(start.val, end.val))

\* the branch of a part that holds no dash
ParseSingle(part, total_pages) ==
    LET page == PyInt(part)
    IN  IF ~page.ok THEN ParseFail("ValueError", IntErrorMsg(part))
        ELSE IF page.val < 1 \/ page.val > total_pages
        THEN ParseFail("ValueError",
                 Msg("Invalid page: {page} (PDF has {total_pages} pages)",
                     << <<"page", IntToStr(page.val)>>,
                        <<"total_pages", IntToStr(total_pages)>> >>))
        ELSE ParseOk(<<page.val>>)

ParsePart(part, total_pages) ==
    IF "-" \in Range(part) THEN ParseDashed(part, total_pages)
    ELSE ParseSingle(part, total_pages)

RECURSIVE ParseParts(_, _, _)
\* the loop over the parts: the first failing part ends it
ParseParts(parts, total_pages, pages) ==
    IF parts = <<>> THEN ParseOk(pages)
    ELSE LET r == ParsePart(Head(parts), total_pages)
         IN  IF ~r.ok THEN r
             ELSE ParseParts(Tail(parts), total_pages, pages \o r.pages)

_parse_page_range(page_range, total_pages) ==
    ParseParts(Split(RemoveChar(page_range, " "), ","), total_pages, <<>>)

-----------------------------------------------------------------------------
(* Paths (os.path, POSIX) and the disk *)

\* os.path.basename
Basename(p) == SubSeq(p, LastIndex(p, "/") + 1, Len(p))

\* os.path.dirname, "" for a bare file name
Dirname(p) == SubSeq(p, 1, LastIndex(p, "/") - 1)

\* os.path.splitext(b)[0]: the last dot starts the extension unless only dots
\* come before it
SplitextRoot(b) ==
    LET i == LastIndex(b, ".")
    IN  IF i = 0 \/ \A j \in 1..(i - 1) : b[j] = "." THEN b
        ELSE SubSeq(b, 1, i - 1)

\* os.path.join(d, name)
Join(d, name) ==
    IF name # <<>> /\ name[1] = "/" THEN name
    ELSE IF d = <<>> \/ d[Len(d)] = "/" THEN d \o name
    ELSE d \o <<"/">> \o name

\* os.path.exists
Exists(files, folders, p) == p \in DOMAIN files \/ (p # <<>> /\ p \in folders)

\* os.makedirs(d, exist_ok=True): d and every missing parent
Makedirs(folders, d) ==
    folders \cup {SubSeq(d, 1, i) : i \in {j \in 1..Len(d) : j = Len(d) \/ d[j + 1] = "/"}}

\* a document as the PDF writer leaves it on disk; size is os.path.getsize in
\* abstract units: the file structure, and every page, take up space
Pdf(pages) ==
    [kind |-> "pdf", pages |-> pages, mode |-> "", size |-> Len(pages) + 1]

Img(mode, pix) == [kind |-> "img", pages |-> <<pix>>, mode |-> mode, size |-> 1]

\* a regular file of no bytes
EmptyFile == [kind |-> "empty", pages |-> <<>>, mode |-> "", size |-> 0]

\* a document in a file of another producer: its size is not the writer's
PdfOfSize(pages, size) == [Pdf(pages) EXCEPT !.size = size]

\* open(p, 'wb') followed by the write: the file is created or replaced
WriteFile(files, p, content) ==
    [q \in DOMAIN files \cup {p} |-> IF q = p THEN content ELSE files[q]]

\* open(p, 'wb') needs p's directory
Writable(folders, p) == Dirname(p) \in folders

NoSuchFileMsg(p) ==
    Msg("[Errno 2] No such file or directory: {!r}", <<<<"filename", p>>>>)

NotFoundMsg(p) == Msg("File not found: {file_path}", <<<<"file_path", p>>>>)

\* the outcome of an operation: the disk it leaves, and what it returns or raises
Returned(files, folders, ret, text, opened, written) ==
    [fs |-> files, dirs |-> folders, ok |-> TRUE, exc |-> "", msg |-> NoMsg,
     files |-> ret, text |-> text, opened |-> opened, written |-> written]

Raised(files, folders, exc, msg, opened, written) ==
    [fs |-> files, dirs |-> folders, ok |-> FALSE, exc |-> exc, msg |-> msg,
     files |-> <<>>, text |-> <<>>, opened |-> opened, written |-> written]

\* the paths of a list that do not exist, as positions
MissingAt(files, folders, paths) ==
    {i \in 1..Len(paths) : ~Exists(files, folders, paths[i])}

\* FirstMissing reporting the last missing path of the list instead
LastMissing(files, folders, paths) ==
    LET miss == MissingAt(files, folders, paths)
    IN  paths[CHOOSE i \in miss : \A j \in miss : i >= j]

\* the validation loop: the first path of the list that does not exist
FirstMissing(files, folders, paths) ==
    LET miss == MissingAt(files, folders, paths)
    IN  paths[CHOOSE i \in miss : \A j \in miss : i <= j]

-----------------------------------------------------------------------------
(* PdfService.merge_pdfs *)

RECURSIVE MergeAppendOnce(_, _, _, _)
\* MergeAppend skipping a file it has already appended
MergeAppendOnce(files, input_files, pages, opened) ==
    IF input_files = <<>> THEN [ok |-> TRUE, pages |-> pages, opened |-> opened]
    ELSE LET f == Head(input_files)
         IN  IF files[f].kind # "pdf"
             THEN [ok |-> FALSE, pages |-> pages, opened |-> Append(opened, f)]
             ELSE IF f \in Range(opened)
             THEN MergeAppendOnce(files, Tail(input_files), pages, opened)
             ELSE MergeAppendOnce(files, Tail(input_files), pages \o files[f].pages,
                                  Append(opened, f))

RECURSIVE MergeAppend(_, _, _, _)
\* the loop of merger.append: each file is opened and its pages appended
MergeAppend(files, input_files, pages, opened) ==
    IF input_files = <<>> THEN [ok |-> TRUE, pages |-> pages, opened |-> opened]
    ELSE LET f == Head(input_files)
         IN  IF files[f].kind # "pdf"
             THEN [ok |-> FALSE, pages |-> pages, opened |-> Append(opened, f)]
             ELSE MergeAppend(files, Tail(input_files), pages \o files[f].pages,
                              Append(opened, f))

merge_pdfs(files, folders, input_files, output_file) ==
    IF MissingAt(files, folders, input_files) # {}
    THEN Raised(files, folders, "FileNotFoundError",
                NotFoundMsg(FirstMissing(files, folders, input_files)), <<>>, <<>>)
    ELSE LET merger == MergeAppend(files, input_files, <<>>, <<>>)
         IN  IF ~merger.ok
             THEN Raised(files, folders, "PdfReadError",
                         Msg("EOF marker not found", <<>>), merger.opened, <<>>)
             ELSE IF ~Writable(folders, output_file)
             THEN Raised(files, folders, "FileNotFoundError",
                         NoSuchFileMsg(output_file), merger.opened, <<>>)
             ELSE Returned(WriteFile(files, output_file, Pdf(merger.pages)), folders,
                           <<output_file>>, <<>>, merger.opened, <<output_file>>)

-----------------------------------------------------------------------------
(* PdfService.split_pdf *)

PartSuffix == <<"_", "p", "a", "r", "t">>

PdfExt == <<".", "p", "d", "f">>

\* PartPath numbering the parts from 0
PartPathZeroBased(output_dir, base_name, idx) ==
    Join(output_dir, base_name \o PartSuffix \o IntToStr(idx - 1) \o PdfExt)

\* PartPath without the position of the range in the name
PartPathUnnumbered(output_dir, base_name, idx) ==
    Join(output_dir, base_name \o PartSuffix \o PdfExt)

\* f"{base_name}_part{idx}.pdf" joined to output_dir
PartPath(output_dir, base_name, idx) ==
    Join(output_dir, base_name \o PartSuffix \o IntToStr(idx) \o PdfExt)

\* the pages a writer gets from reader.pages[page_num - 1] for each page_num
PickPages(reader, pages) == [k \in 1..Len(pages) |-> reader[(pages[k] - 1) + 1]]

RECURSIVE SplitLoopTolerant(_, _, _, _, _, _, _, _)
\* SplitLoop going on to the later ranges after one that does not parse
SplitLoopTolerant(files, folders, reader, ranges, idx, base_name, output_dir, output_files) ==
    IF idx > Len(ranges)
    THEN Returned(files, folders, output_files, <<>>, <<>>, output_files)
    ELSE LET parsed == _parse_page_range(ranges[idx], Len(reader))
         IN  IF ~parsed.ok
             THEN LET rest == SplitLoopTolerant(files, folders, reader, ranges, idx + 1,
                                                base_name, output_dir, output_files)
                  IN  Raised(rest.fs, folders, parsed.exc, parsed.msg, <<>>,
                             rest.written)
             ELSE LET output_file == PartPath(output_dir, base_name, idx)
                  IN  SplitLoopTolerant(WriteFile(files, output_file,
                                            Pdf(PickPages(reader, parsed.pages))),
                                        folders, reader, ranges, idx + 1, base_name,
                                        output_dir, Append(output_files, output_file))

RECURSIVE SplitLoop(_, _, _, _, _, _, _, _)
\* the loop over enumerate(ranges, 1), from position idx on
SplitLoop(files, folders, reader, ranges, idx, base_name, output_dir, output_files) ==
    IF idx > Len(ranges)
    THEN Returned(files, folders, output_files, <<>>, <<>>, output_files)
    ELSE LET parsed == _parse_page_range(ranges[idx], Len(reader))
         IN  IF ~parsed.ok
             THEN Raised(files, folders, parsed.exc, parsed.msg, <<>>, output_files)
             ELSE LET output_file == PartPath(output_dir, base_name, idx)
                  IN  SplitLoop(WriteFile(files, output_file,
                                          Pdf(PickPages(reader, parsed.pages))),
                                folders, reader, ranges, idx + 1, base_name,
                                output_dir, Append(output_files, output_file))

split_pdf(files, folders, input_file, ranges, output_dir) ==
    IF ~Exists(files, folders, input_file)
    THEN Raised(files, folders, "FileNotFoundError", NotFoundMsg(input_file),
                <<>>, <<>>)
    ELSE IF output_dir \in DOMAIN files
    THEN Raised(files, folders, "FileExistsError",
                Msg("[Errno 17] File exists: {!r}", <<<<"filename", output_dir>>>>),
                <<>>, <<>>)
    ELSE LET made == Makedirs(folders, output_dir)
         IN  IF files[input_file].kind # "pdf"
             THEN Raised(files, made, "PdfReadError",
                         Msg("EOF marker not found", <<>>), <<input_file>>, <<>>)
             ELSE LET r == SplitLoop(files, made, files[input_file].pages, ranges, 1,
                                     SplitextRoot(Basename(input_file)), output_dir,
                                     <<>>)
                  IN  [r EXCEPT !.opened = <<input_file>>]

-----------------------------------------------------------------------------
(* PdfService.compress_pdf *)

ReadFailed(exc, msg) == [ok |-> FALSE, exc |-> exc, msg |-> msg, pages |-> <<>>]

\* PdfReader(input_file): the bytes of the file are read; a file that yields no
\* bytes, and a file that is not a PDF, are refused
PdfReader(content) ==
    IF content.kind = "empty"
    THEN ReadFailed("EmptyFileError", Msg("Cannot read an empty file", <<>>))
    ELSE IF content.kind # "pdf"
    THEN ReadFailed("PdfReadError", Msg("EOF marker not found", <<>>))
    ELSE [ok |-> TRUE, exc |-> "", msg |-> NoMsg, pages |-> content.pages]

RECURSIVE CopyPagesReversed(_, _)
\* CopyPages putting each page in front of the pages already copied
CopyPagesReversed(reader, writer) ==
    IF reader = <<>> THEN writer
    ELSE CopyPagesReversed(Tail(reader), <<Head(reader)>> \o writer)

RECURSIVE CopyPages(_, _)
\* for page in reader.pages: writer.add_page(page)
CopyPages(reader, writer) ==
    IF reader = <<>> THEN writer
    ELSE CopyPages(Tail(reader), Append(writer, Head(reader)))

\* ((original_size - compressed_size) / original_size) * 100, as a fraction;
\* the division raises ZeroDivisionError when original_size is 0
SizeReduction(original_size, compressed_size) ==
    [ok |-> original_size # 0,
     num |-> (original_size - compressed_size) * 100, den |-> original_size]

DivisionMsg == Msg("division by zero", <<>>)

compress_pdf(files, folders, input_file, output_file) ==
    IF ~Exists(files, folders, input_file)
    THEN Raised(files, folders, "FileNotFoundError", NotFoundMsg(input_file),
                <<>>, <<>>)
    ELSE LET reader == PdfReader(files[input_file])
         IN  IF ~reader.ok
             THEN Raised(files, folders, reader.exc, reader.msg, <<input_file>>, <<>>)
             ELSE IF ~Writable(folders, output_file)
             THEN Raised(files, folders, "FileNotFoundError",
                         NoSuchFileMsg(output_file), <<input_file>>, <<>>)
             ELSE LET written == WriteFile(files, output_file,
                                           Pdf(CopyPages(reader.pages, <<>>)))
                      reduction == SizeReduction(written[input_file].size,
                                                 written[output_file].size)
                  IN  IF ~reduction.ok
                      THEN Raised(written, folders, "ZeroDivisionError", DivisionMsg,
                                  <<input_file>>, <<output_file>>)
                      ELSE Returned(written, folders, <<output_file>>, <<>>,
                                    <<input_file>>, <<output_file>>)

-----------------------------------------------------------------------------
(* PdfService.image_to_pdf *)

\* the normalisation of one opened image: composited on white through its alpha
\* ('RGBA', 'LA'), pasted on white ('P'), converted (any other mode but 'RGB')
ToRgb(img) ==
    IF img.mode \in {"RGBA", "LA", "P"} THEN Img("RGB", img.pages[1])
    ELSE IF img.mode # "RGB" THEN Img("RGB", img.pages[1])
    ELSE img

RECURSIVE OpenImages(_, _, _, _)
\* the loop of Image.open: each file is opened and normalised
OpenImages(files, image_files, images, opened) ==
    IF image_files = <<>> THEN [ok |-> TRUE, images |-> images, opened |-> opened]
    ELSE LET f == Head(image_files)
         IN  IF files[f].kind # "img"
             THEN [ok |-> FALSE, images |-> images, opened |-> Append(opened, f)]
             ELSE OpenImages(files, Tail(image_files),
                             Append(images, ToRgb(files[f])), Append(opened, f))

image_to_pdf(files, folders, image_files, output_file) ==
    IF MissingAt(files, folders, image_files) # {}
    THEN Raised(files, folders, "FileNotFoundError",
                NotFoundMsg(FirstMissing(files, folders, image_files)), <<>>, <<>>)
    ELSE LET loaded == OpenImages(files, image_files, <<>>, <<>>)
         IN  IF ~loaded.ok
             THEN Raised(files, folders, "UnidentifiedImageError",
                         Msg("cannot identify image file {!r}",
                             <<<<"filename", loaded.opened[Len(loaded.opened)]>>>>),
                         loaded.opened, <<>>)
             ELSE IF loaded.images # <<>>
             THEN IF ~Writable(folders, output_file)
                  THEN Raised(files, folders, "FileNotFoundError",
                              NoSuchFileMsg(output_file), loaded.opened, <<>>)
                  ELSE Returned(WriteFile(files, output_file,
                                    Pdf([i \in 1..Len(loaded.images) |->
                                            loaded.images[i].pages[1]])),
                                folders, <<output_file>>, <<>>, loaded.opened,
                                <<output_file>>)
             ELSE Returned(files, folders, <<output_file>>, <<>>, loaded.opened, <<>>)

-----------------------------------------------------------------------------
(* PdfService.pdf_to_text *)

\* page.extract_text() of the pages of the model
PageText(page) ==
    CASE page = "p1" -> <<"a">>
      [] page = "p2" -> <<" ", "\n">>
      [] page = "p3" -> <<>>
      [] page = "p4" -> <<" ", "b", "\n">>
      [] OTHER -> <<>>

HeaderOpen == <<"=", "=", "=", " ", "P", "a", "g", "e", " ">>

HeaderClose == <<" ", "=", "=", "=">>

\* f"=== Page {page_num} ===\n{text}\n"
TextEntry(page_num, text) ==
    HeaderOpen \o IntToStr(page_num) \o HeaderClose \o <<"\n">> \o text \o <<"\n">>

RECURSIVE TextContentUnstripped(_, _)
\* TextContent testing the text itself, not the stripped text
TextContentUnstripped(reader, page_num) ==
    IF page_num > Len(reader) THEN <<>>
    ELSE LET text == PageText(reader[page_num])
         IN  (IF text # <<>> THEN <<TextEntry(page_num, text)>> ELSE <<>>)
             \o TextContentUnstripped(reader, page_num + 1)

RECURSIVE TextContent(_, _)
\* the loop over enumerate(reader.pages, 1), from page page_num on
TextContent(reader, page_num) ==
    IF page_num > Len(reader) THEN <<>>
    ELSE LET text == PageText(reader[page_num])
         IN  (IF Strip(text) # <<>> THEN <<TextEntry(page_num, text)>> ELSE <<>>)
             \o TextContent(reader, page_num + 1)

RECURSIVE JoinLines(_)
\* '\n'.join(entries)
JoinLines(entries) ==
    IF entries = <<>> THEN <<>>
    ELSE IF Len(entries) = 1 THEN entries[1]
    ELSE entries[1] \o <<"\n">> \o JoinLines(Tail(entries))

pdf_to_text(files, folders, input_file) ==
    IF ~Exists(files, folders, input_file)
    THEN Raised(files, folders, "FileNotFoundError", NotFoundMsg(input_file),
                <<>>, <<>>)
    ELSE LET reader == PdfReader(files[input_file])
         IN  IF ~reader.ok
             THEN Raised(files, folders, reader.exc, reader.msg, <<input_file>>, <<>>)
             ELSE Returned(files, folders, <<>>,
                           JoinLines(TextContent(reader.pages, 1)),
                           <<input_file>>, <<>>)

-----------------------------------------------------------------------------
(* The disk the service runs on, and the arguments of its callers *)

\* "a.pdf"
FileA == <<"a", ".", "p", "d", "f">>
\* "in/b.pdf"
FileB == <<"i", "n", "/", "b", ".", "p", "d", "f">>
\* "i.png"
ImageI == <<"i", ".", "p", "n", "g">>
\* "j.png"
ImageJ == <<"j", ".", "p", "n", "g">>
\* "m.pdf" and "n.pdf": never on disk
MissingM == <<"m", ".", "p", "d", "f">>
MissingN == <<"n", ".", "p", "d", "f">>
\* "o.pdf"
FileO == <<"o", ".", "p", "d", "f">>
\* "x/o.pdf": the directory x does not exist
FileXO == <<"x", "/", "o", ".", "p", "d", "f">>
\* "z.pdf": a file of no bytes
FileZ == <<"z", ".", "p", "d", "f">>
\* "f.pdf": a named pipe, or a file of a file system that keeps no sizes:
\* os.path.getsize is 0, and reading it yields a document
FileF == <<"f", ".", "p", "d", "f">>
\* "in"
DirIn == <<"i", "n">>
\* "out"
DirOut == <<"o", "u", "t">>

\* the documents a.pdf starts as
InitDocs ==
    { <<"p1", "p2", "p3", "p4">>, <<"p4", "p1">>, <<>> }

InitFs(docA) ==
    [p \in {FileA, FileB, ImageI, ImageJ} |->
        CASE p = FileA -> Pdf(docA)
          [] p = FileB -> Pdf(<<"p3", "p1", "p1">>)
          [] p = ImageI -> Img("RGBA", "i1")
          [] p = ImageJ -> Img("L", "i2")]

\* the range expressions "1-2", "3-4", "2,2", "9", "1-2-3", "2-1", "1", "2"
R_1to2 == <<"1", "-", "2">>
R_3to4 == <<"3", "-", "4">>
R_2and2 == <<"2", ",", "2">>
R_9 == <<"9">>
R_1to2to3 == <<"1", "-", "2", "-", "3">>
R_2to1 == <<"2", "-", "1">>
R_1 == <<"1">>
R_2 == <<"2">>

\* the lists of range expressions a caller splits by
RangeLists ==
    { <<>>, <<R_1to2, R_3to4>>, <<R_3to4, R_1to2>>, <<R_2and2>>, <<R_1, R_2>>,
      <<R_1, R_9, R_2>>, <<R_1to2to3, R_1>>, <<R_1, R_2to1>>, <<R_2, R_1, R_1to2>> }

\* the file lists a caller merges: known paths, or the paths the last split returned
MergeLists ==
    { <<>>, <<FileA>>, <<FileA, FileB>>, <<FileB, FileA>>, <<FileA, FileA>>,
      <<FileB, FileA, FileB>>, <<FileA, MissingM>>, <<MissingM, FileA>>,
      <<MissingM, MissingN>>, <<MissingN, FileB, MissingM>>, <<FileA, ImageI>> }
    \cup (IF last.op = "split_pdf" /\ last.ok THEN {last.files} ELSE {})

MergeOutputs == {FileO, FileA, FileXO}

SplitInputs == {FileA, FileB, MissingM, ImageI}

SplitDirs == {DirOut}

ImageLists ==
    { <<>>, <<ImageI>>, <<ImageI, ImageJ>>, <<ImageJ, ImageI, ImageJ>>,
      <<ImageI, MissingM>>, <<FileA>> }

ImageOutputs == {FileO, FileXO}

TextInputs == {FileA, FileB, FileO, MissingM, ImageI}

CompressInputs == {FileA}

ApiCompressInputs == {<<>>, FileA, FileB, FileZ, MissingM, ImageI}

CompressOutputs == {FileO}

NoCall ==
    [op |-> "none", inputs |-> <<>>, ranges |-> <<>>, out |-> <<>>,
     pre |-> <<>>, ok |-> FALSE, exc |-> "", msg |-> NoMsg, files |-> <<>>,
     text |-> <<>>, opened |-> <<>>, written |-> <<>>]

\* the record of a call: its arguments, the disk before it, and its outcome
CallRecord(op, inputs, ranges, out, r) ==
    [op |-> op, inputs |-> inputs, ranges |-> ranges, out |-> out,
     pre |-> fs, ok |-> r.ok, exc |-> r.exc, msg |-> r.msg, files |-> r.files,
     text |-> r.text, opened |-> r.opened, written |-> r.written]

\* the UI bridge has returned nothing yet
NoReply ==
    [op |-> "none", success |-> FALSE, keys |-> {}, error |-> NoMsg,
     output |-> <<>>, files |-> <<>>, text |-> <<>>, sizes |-> <<>>,
     escaped |-> "", called |-> FALSE]

NotParsed == [ok |-> FALSE, pages |-> <<>>, exc |-> "", msg |-> NoMsg]

\* one caller at a time: no two calls are under way together
NoThreads == [job |-> <<>>, t |-> <<>>, buf |-> <<>>, writes |-> <<>>, pre |-> <<>>]

\* no call of the parser on its own is under way
ParseIdle ==
    [expr |-> <<>>, total |-> 0, done |-> TRUE, result |-> NotParsed]

Init ==
    /\ fs \in {InitFs(d) : d \in InitDocs}
    /\ dirs = {<<>>, DirIn}
    /\ last = NoCall
    /\ prev = NoCall
    /\ calls = 0
    /\ reply = NoReply
    /\ parse = ParseIdle
    /\ threads = NoThreads

\* a call runs to completion on the calling thread and leaves its record
Finish(op, inputs, ranges, out, r) ==
    /\ calls < MaxCalls
    /\ fs' = r.fs
    /\ dirs' = r.dirs
    /\ prev' = last
    /\ last' = CallRecord(op, inputs, ranges, out, r)
    /\ calls' = calls + 1

MergeCall(input_files, output_file) ==
    /\ Finish("merge_pdfs", input_files, <<>>, output_file,
              merge_pdfs(fs, dirs, input_files, output_file))
    /\ UNCHANGED <<reply, parse, threads>>

SplitCall(input_file, ranges, output_dir) ==
    /\ Finish("split_pdf", <<input_file>>, ranges, output_dir,
              split_pdf(fs, dirs, input_file, ranges, output_dir))
    /\ UNCHANGED <<reply, parse, threads>>

ImageCall(image_files, output_file) ==
    /\ Finish("image_to_pdf", image_files, <<>>, output_file,
              image_to_pdf(fs, dirs, image_files, output_file))
    /\ UNCHANGED <<reply, parse, threads>>

TextCall(input_file) ==
    /\ Finish("pdf_to_text", <<input_file>>, <<>>, <<>>,
              pdf_to_text(fs, dirs, input_file))
    /\ UNCHANGED <<reply, parse, threads>>

CompressCall(input_file, output_file) ==
    /\ Finish("compress_pdf", <<input_file>>, <<>>, output_file,
              compress_pdf(fs, dirs, input_file, output_file))
    /\ UNCHANGED <<reply, parse, threads>>

Next ==
    \/ \E input_files \in MergeLists, output_file \in MergeOutputs :
           MergeCall(input_files, output_file)
    \/ \E input_file \in SplitInputs, ranges \in RangeLists, output_dir \in SplitDirs :
           SplitCall(input_file, ranges, output_dir)
    \/ \E image_files \in ImageLists, output_file \in ImageOutputs :
           ImageCall(image_files, output_file)
    \/ \E input_file \in TextInputs : TextCall(input_file)
    \/ \E input_file \in CompressInputs, output_file \in CompressOutputs :
           CompressCall(input_file, output_file)

Spec == Init /\ [][Next]_vars

-----------------------------------------------------------------------------
(* The UI bridge: Api.merge_pdfs, Api.split_pdf, Api.compress_pdf,            *)
(* Api.image_to_pdf, Api.pdf_to_text                                         *)

\* {"success": False, "error": ...}
ApiFailure(op, error, called) ==
    [NoReply EXCEPT !.op = op, !.keys = {"success", "error"}, !.error = error,
                    !.called = called]

\* {"success": True, "output": ..., "message": ...}
ApiOutput(op, output) ==
    [NoReply EXCEPT !.op = op, !.success = TRUE,
                    !.keys = {"success", "output", "message"},
                    !.output = output, !.called = TRUE]

\* {"success": True, "files": ..., "message": ...}
ApiFiles(op, files) ==
    [NoReply EXCEPT !.op = op, !.success = TRUE,
                    !.keys = {"success", "files", "message"},
                    !.files = files, !.called = TRUE]

\* {"success": True, "text": ..., "message": ...}
ApiExtracted(op, text) ==
    [NoReply EXCEPT !.op = op, !.success = TRUE,
                    !.keys = {"success", "text", "message"},
                    !.text = text, !.called = TRUE]

\* {"success": True, "output": ..., "original_size": ..., "compressed_size": ...,
\*  "reduction_percent": ..., "message": ...}
ApiCompressed(op, output, original_size, compressed_size) ==
    [NoReply EXCEPT !.op = op, !.success = TRUE,
                    !.keys = {"success", "output", "original_size",
                              "compressed_size", "reduction_percent", "message"},
                    !.output = output,
                    !.sizes = <<original_size, compressed_size>>,
                    !.called = TRUE]

\* no result: the exception leaves the bridge method
ApiEscaped(op, exc, called) ==
    [NoReply EXCEPT !.op = op, !.escaped = exc, !.called = called]

\* the exception classes the service and the bridge raise
Exceptions ==
    { "FileNotFoundError", "FileExistsError", "PdfReadError", "EmptyFileError",
      "ValueError", "UnidentifiedImageError", "ZeroDivisionError" }

\* Catches with a handler for the OSError classes only
CatchesOSError(exc) == exc \in {"FileNotFoundError", "FileExistsError"}

\* except Exception: every one of these classes derives from Exception
Catches(exc) == exc \in Exceptions

\* the handler's result for an exception raised inside the try block
ApiExcept(op, exc, msg, called) ==
    IF Catches(exc) THEN ApiFailure(op, msg, called) ELSE ApiEscaped(op, exc, called)

\* str.endswith
EndsWith(s, suffix) ==
    Len(s) >= Len(suffix) /\ SubSeq(s, Len(s) - Len(suffix) + 1, Len(s)) = suffix

\* the '.pdf' extension is added to a save path that lacks it
EnsurePdf(save_path) ==
    IF EndsWith(save_path, PdfExt) THEN save_path ELSE save_path \o PdfExt

\* the bridge returns without calling the service
ApiReturnEarly(op, error) ==
    /\ calls < MaxCalls
    /\ reply' = ApiFailure(op, error, FALSE)
    /\ calls' = calls + 1
    /\ UNCHANGED <<fs, dirs, last, prev, parse, threads>>

\* a call of the bridge itself raises before the service is called
ApiRaiseEarly(op, exc, msg) ==
    /\ calls < MaxCalls
    /\ reply' = ApiExcept(op, exc, msg, FALSE)
    /\ calls' = calls + 1
    /\ UNCHANGED <<fs, dirs, last, prev, parse, threads>>

\* the bridge calls the service and turns its outcome into a flat result
ApiThrough(op, inputs, ranges, out, r, success) ==
    /\ Finish(op, inputs, ranges, out, r)
    /\ reply' = IF r.ok THEN success ELSE ApiExcept(op, r.exc, r.msg, TRUE)
    /\ UNCHANGED <<parse, threads>>

\* what the save dialog returns: nothing (cancelled), or the chosen path
\* "o"
NameO == <<"o">>

SaveDialogResults == {<<>>, NameO, FileO, FileA, FileXO}

ApiMerge(files, save_path) ==
    IF files = <<>> THEN ApiReturnEarly("merge_pdfs", Msg("No files selected", <<>>))
    ELSE IF save_path = <<>>
    THEN ApiReturnEarly("merge_pdfs", Msg("Save cancelled", <<>>))
    ELSE LET r == merge_pdfs(fs, dirs, files, EnsurePdf(save_path))
         IN  ApiThrough("merge_pdfs", files, <<>>, EnsurePdf(save_path), r,
                        ApiOutput("merge_pdfs", r.files[1]))

\* what the folder dialog returns: None, a tuple of folders, or a folder
FolderDialogResults ==
    { [type |-> "None", items |-> <<>>], [type |-> "tuple", items |-> <<>>],
      [type |-> "tuple", items |-> <<DirOut>>], [type |-> "str", items |-> <<DirOut>>] }

ApiSplit(input_file, ranges, output_dir, dialog) ==
    IF input_file = <<>>
    THEN ApiReturnEarly("split_pdf", Msg("No file selected", <<>>))
    ELSE IF ranges = <<>>
    THEN ApiReturnEarly("split_pdf", Msg("No page ranges specified", <<>>))
    ELSE LET chosen == IF output_dir = <<>> THEN dialog
                       ELSE [type |-> "str", items |-> <<output_dir>>]
         IN  IF chosen.type = "None"
             THEN ApiReturnEarly("split_pdf",
                                 Msg("Output folder selection cancelled", <<>>))
             ELSE IF chosen.items = <<>> \/ chosen.items[1] = <<>>
             THEN ApiReturnEarly("split_pdf", Msg("No output folder selected", <<>>))
             ELSE LET r == split_pdf(fs, dirs, input_file, ranges, chosen.items[1])
                  IN  ApiThrough("split_pdf", <<input_file>>, ranges, chosen.items[1],
                                 r, ApiFiles("split_pdf", r.files))

ApiImage(image_files, save_path) ==
    IF image_files = <<>>
    THEN ApiReturnEarly("image_to_pdf", Msg("No images selected", <<>>))
    ELSE IF save_path = <<>>
    THEN ApiReturnEarly("image_to_pdf", Msg("Save cancelled", <<>>))
    ELSE LET r == image_to_pdf(fs, dirs, image_files, EnsurePdf(save_path))
         IN  ApiThrough("image_to_pdf", image_files, <<>>, EnsurePdf(save_path), r,
                        ApiOutput("image_to_pdf", r.files[1]))

ApiCompress(input_file, save_path) ==
    IF input_file = <<>>
    THEN ApiReturnEarly("compress_pdf", Msg("No file selected", <<>>))
    ELSE IF input_file \notin DOMAIN fs
    THEN ApiRaiseEarly("compress_pdf", "FileNotFoundError", NoSuchFileMsg(input_file))
    ELSE IF save_path = <<>>
    THEN ApiReturnEarly("compress_pdf", Msg("Save cancelled", <<>>))
    ELSE LET original_size == fs[input_file].size
             r == compress_pdf(fs, dirs, input_file, EnsurePdf(save_path))
             compressed_size == r.fs[r.files[1]].size
             reduction == SizeReduction(original_size, compressed_size)
         IN  /\ Finish("compress_pdf", <<input_file>>, <<>>, EnsurePdf(save_path), r)
             /\ reply' =
                    IF ~r.ok THEN ApiExcept("compress_pdf", r.exc, r.msg, TRUE)
                    ELSE IF ~reduction.ok
                    THEN ApiExcept("compress_pdf", "ZeroDivisionError", DivisionMsg,
                                   TRUE)
                    ELSE ApiCompressed("compress_pdf", r.files[1], original_size,
                                       compressed_size)
             /\ UNCHANGED <<parse, threads>>

ApiText(input_file) ==
    IF input_file = <<>>
    THEN ApiReturnEarly("pdf_to_text", Msg("No file selected", <<>>))
    ELSE LET r == pdf_to_text(fs, dirs, input_file)
         IN  ApiThrough("pdf_to_text", <<input_file>>, <<>>, <<>>, r,
                        ApiExtracted("pdf_to_text", r.text))

\* the disk of the bridge: the disk of the service and a file of no bytes
ApiInit ==
    /\ fs \in {WriteFile(InitFs(d), FileZ, EmptyFile) : d \in InitDocs}
    /\ dirs = {<<>>, DirIn}
    /\ last = NoCall
    /\ prev = NoCall
    /\ calls = 0
    /\ reply = NoReply
    /\ parse = ParseIdle
    /\ threads = NoThreads

ApiNext ==
    \/ \E files \in MergeLists, save_path \in SaveDialogResults :
           calls < MaxApiCalls /\ ApiMerge(files, save_path)
    \/ \E input_file \in SplitInputs \cup {<<>>}, ranges \in RangeLists,
          output_dir \in {<<>>, DirOut}, dialog \in FolderDialogResults :
           calls < MaxApiCalls /\ ApiSplit(input_file, ranges, output_dir, dialog)
    \/ \E image_files \in ImageLists, save_path \in SaveDialogResults :
           calls < MaxApiCalls /\ ApiImage(image_files, save_path)
    \/ \E input_file \in ApiCompressInputs, save_path \in SaveDialogResults :
           calls < MaxApiCalls /\ ApiCompress(input_file, save_path)
    \/ \E input_file \in TextInputs \cup {<<>>, FileZ} :
           calls < MaxApiCalls /\ ApiText(input_file)

SpecApi == ApiInit /\ [][ApiNext]_vars

-----------------------------------------------------------------------------
(* Compression alone, through the service and through the UI bridge: a.pdf  *)
(* is any document of up to MaxCompressPages pages, smaller or larger on    *)
(* disk than the writer will make it                                        *)

CompressPages == {"p1", "p2", "p3"}

CompressDisk(doc, size) ==
    [p \in {FileA, FileZ, FileF, ImageI} |->
        CASE p = FileA -> PdfOfSize(doc, size)
          [] p = FileZ -> EmptyFile
          [] p = FileF -> PdfOfSize(<<"p2", "p1">>, 0)
          [] p = ImageI -> Img("RGB", "i1")]

CompressInit ==
    /\ \E k \in 0..MaxCompressPages : \E doc \in [1..k -> CompressPages] :
           \E size \in {1, k + 3} : fs = CompressDisk(doc, size)
    /\ dirs = {<<>>}
    /\ last = NoCall
    /\ prev = NoCall
    /\ calls = 0
    /\ reply = NoReply
    /\ parse = ParseIdle
    /\ threads = NoThreads

CompressNext ==
    \/ \E input_file \in {FileA, FileZ, FileF, MissingM, ImageI},
          output_file \in {FileO, FileA, FileXO} :
           CompressCall(input_file, output_file)
    \/ \E input_file \in {<<>>, FileA, FileZ, FileF, MissingM},
          save_path \in {<<>>, NameO, FileA} :
           ApiCompress(input_file, save_path)

SpecCompress == CompressInit /\ [][CompressNext]_vars

-----------------------------------------------------------------------------
(* Text extraction alone: a.pdf is any document of up to MaxTextPages pages *)

TextPages == {"p1", "p2", "p3", "p4"}

TextInit ==
    /\ \E k \in 0..MaxTextPages : \E doc \in [1..k -> TextPages] :
           fs = [p \in {FileA, ImageI} |->
                    IF p = FileA THEN Pdf(doc) ELSE Img("RGB", "i1")]
    /\ dirs = {<<>>}
    /\ last = NoCall
    /\ prev = NoCall
    /\ calls = 0
    /\ reply = NoReply
    /\ parse = ParseIdle
    /\ threads = NoThreads

TextNext == \E input_file \in {FileA, MissingM, ImageI} : TextCall(input_file)

SpecText == TextInit /\ [][TextNext]_vars

-----------------------------------------------------------------------------
(* The parser alone: every expression up to MaxExprLen over ExprAlphabet,   *)
(* and the sample expressions, against every page count up to MaxTotalPages *)

ExprAlphabet == {"0", "1", "2", "3", "4", ",", "-", " ", "\t", "x"}

\* "1-3,5,7-9"
SampleExpr == <<"1", "-", "3", ",", "5", ",", "7", "-", "9">>

SampleInputs ==
    { [expr |-> SampleExpr, total |-> 10],
      [expr |-> SampleExpr, total |-> 8],
      [expr |-> <<"1", "-", "2", "-", "3">>, total |-> 5],
      [expr |-> <<"1", "_", "0">>, total |-> 10],
      [expr |-> <<"+", "2", ",", "\n", "1">>, total |-> 2],
      [expr |-> <<"1", "1">>, total |-> 10],
      [expr |-> <<"1", "\t", "2">>, total |-> 12],
      [expr |-> <<"1", "\n", "2">>, total |-> 12] }

\* the parser is about to be called on expr against a total_pages of total
ParseStart(expr, total) ==
    /\ parse = [expr |-> expr, total |-> total, done |-> FALSE, result |-> NotParsed]
    /\ fs = InitFs(<<>>)
    /\ dirs = {<<>>, DirIn}
    /\ last = NoCall
    /\ prev = NoCall
    /\ calls = 0
    /\ reply = NoReply
    /\ threads = NoThreads

ParseInit ==
    \/ \E k \in 0..MaxExprLen, n \in 0..MaxTotalPages :
           \E e \in [1..k -> ExprAlphabet] : ParseStart(e, n)
    \/ \E inp \in SampleInputs : ParseStart(inp.expr, inp.total)

ParseCall ==
    /\ ~parse.done
    /\ parse' = [parse EXCEPT !.done = TRUE,
                              !.result = _parse_page_range(parse.expr, parse.total)]
    /\ UNCHANGED <<fs, dirs, last, prev, calls, reply, threads>>

SpecParse == ParseInit /\ [][ParseCall]_vars

-----------------------------------------------------------------------------
(* Two callers in the service at once.  PdfService has no attributes: all a  *)
(* call works on is its arguments, its local objects and the disk.  A call  *)
(* advances by one file operation, or one step on its own objects, at a     *)
(* time, and the two calls interleave freely.                               *)

Callers == {1, 2}

\* "p.pdf"
FileP == <<"p", ".", "p", "d", "f">>

Job(op, inputs, out) == [op |-> op, inputs |-> inputs, out |-> out]

\* the calls a caller makes
Jobs ==
    { Job("merge_pdfs", <<FileA, FileB>>, FileO),
      Job("merge_pdfs", <<FileA, MissingM>>, FileO),
      Job("merge_pdfs", <<FileB>>, FileP),
      Job("merge_pdfs", <<FileB, ImageI>>, FileP),
      Job("compress_pdf", <<FileA>>, FileO),
      Job("compress_pdf", <<FileB>>, FileP),
      Job("compress_pdf", <<FileZ>>, FileP),
      Job("compress_pdf", <<FileO>>, FileP),
      Job("compress_pdf", <<FileB>>, FileXO) }

\* a call at its first statement
Started ==
    [pc |-> "exists", i |-> 1, reader |-> <<>>, ok |-> FALSE, exc |-> "",
     msg |-> NoMsg, files |-> <<>>]

\* WriterOf with one writer kept on the service and used by every call
WriterOfService(c) == 1

\* merger = PdfMerger(), writer = PdfWriter(): an object of the call itself
WriterOf(c) == c

ConcInit ==
    /\ fs = WriteFile(InitFs(<<"p1", "p2", "p3", "p4">>), FileZ, EmptyFile)
    /\ dirs = {<<>>, DirIn}
    /\ last = NoCall
    /\ prev = NoCall
    /\ calls = 0
    /\ reply = NoReply
    /\ parse = ParseIdle
    /\ \E j1 \in Jobs, j2 \in Jobs :
           threads = [job |-> <<j1, j2>>, t |-> <<Started, Started>>,
                      buf |-> <<<<>>, <<>>>>, writes |-> <<>>, pre |-> fs]

\* caller c's call moves on to statement pc
Goto(c, pc) == [threads EXCEPT !.t[c].pc = pc]

\* caller c's call raises
Raise(c, exc, msg) ==
    [threads EXCEPT !.t[c].pc = "done", !.t[c].exc = exc, !.t[c].msg = msg]

\* caller c's call returns output_file
Return(c) ==
    [threads EXCEPT !.t[c].pc = "done", !.t[c].ok = TRUE,
                    !.t[c].files = <<threads.job[c].out>>]

\* if not os.path.exists(...): raise FileNotFoundError, for one input
StepExists(c) ==
    LET st == threads.t[c]
        job == threads.job[c]
    IN  /\ st.pc = "exists"
        /\ threads' =
              IF ~Exists(fs, dirs, job.inputs[st.i])
              THEN Raise(c, "FileNotFoundError", NotFoundMsg(job.inputs[st.i]))
              ELSE IF st.i < Len(job.inputs)
              THEN [threads EXCEPT !.t[c].i = st.i + 1]
              ELSE [threads EXCEPT !.t[c].i = 1,
                       !.t[c].pc = IF job.op = "merge_pdfs" THEN "create" ELSE "read"]
        /\ UNCHANGED <<fs, dirs, last, prev, calls, reply, parse>>

\* reader = PdfReader(input_file)
StepRead(c) ==
    LET st == threads.t[c]
        job == threads.job[c]
        reader == PdfReader(fs[job.inputs[1]])
    IN  /\ st.pc = "read"
        /\ threads' =
              IF ~reader.ok THEN Raise(c, reader.exc, reader.msg)
              ELSE [threads EXCEPT !.t[c].reader = reader.pages,
                                   !.t[c].pc = "create"]
        /\ UNCHANGED <<fs, dirs, last, prev, calls, reply, parse>>

\* merger = PdfMerger(), writer = PdfWriter()
StepCreate(c) ==
    LET job == threads.job[c]
    IN  /\ threads.t[c].pc = "create"
        /\ threads' =
              [threads EXCEPT !.buf[WriterOf(c)] = <<>>,
                  !.t[c].pc = IF job.op = "merge_pdfs" THEN "append" ELSE "copy"]
        /\ UNCHANGED <<fs, dirs, last, prev, calls, reply, parse>>

\* merger.append(file_path), for one input
StepAppend(c) ==
    LET st == threads.t[c]
        job == threads.job[c]
        f == job.inputs[st.i]
    IN  /\ st.pc = "append"
        /\ threads' =
              IF fs[f].kind # "pdf"
              THEN Raise(c, "PdfReadError", Msg("EOF marker not found", <<>>))
              ELSE [threads EXCEPT
                       !.buf[WriterOf(c)] = @ \o fs[f].pages,
                       !.t[c].i = st.i + 1,
                       !.t[c].pc = IF st.i < Len(job.inputs) THEN "append" ELSE "open"]
        /\ UNCHANGED <<fs, dirs, last, prev, calls, reply, parse>>

\* for page in reader.pages: writer.add_page(page)
StepCopy(c) ==
    /\ threads.t[c].pc = "copy"
    /\ threads' =
          [threads EXCEPT !.buf[WriterOf(c)] = CopyPages(threads.t[c].reader, @),
                          !.t[c].pc = "open"]
    /\ UNCHANGED <<fs, dirs, last, prev, calls, reply, parse>>

\* open(output_file, 'wb'): the file is created, or cut to no bytes
StepOpen(c) ==
    LET job == threads.job[c]
    IN  /\ threads.t[c].pc = "open"
        /\ IF ~Writable(dirs, job.out)
           THEN /\ threads' = Raise(c, "FileNotFoundError", NoSuchFileMsg(job.out))
                /\ fs' = fs
           ELSE /\ threads' = Goto(c, "write")
                /\ fs' = WriteFile(fs, job.out, EmptyFile)
        /\ UNCHANGED <<dirs, last, prev, calls, reply, parse>>

\* the document is written to the open file, and the file closed
StepWrite(c) ==
    LET job == threads.job[c]
        doc == Pdf(threads.buf[WriterOf(c)])
        wrote == [threads EXCEPT !.writes = Append(@, [by |-> c, doc |-> doc])]
    IN  /\ threads.t[c].pc = "write"
        /\ fs' = WriteFile(fs, job.out, doc)
        /\ threads' =
              IF job.op = "merge_pdfs"
              THEN [wrote EXCEPT !.t[c].pc = "done", !.t[c].ok = TRUE,
                                 !.t[c].files = <<job.out>>]
              ELSE [wrote EXCEPT !.t[c].pc = "sizes"]
        /\ UNCHANGED <<dirs, last, prev, calls, reply, parse>>

\* the two os.path.getsize and the reduction of compress_pdf
StepSizes(c) ==
    LET job == threads.job[c]
        reduction == SizeReduction(fs[job.inputs[1]].size, fs[job.out].size)
    IN  /\ threads.t[c].pc = "sizes"
        /\ threads' =
              IF ~reduction.ok THEN Raise(c, "ZeroDivisionError", DivisionMsg)
              ELSE Return(c)
        /\ UNCHANGED <<fs, dirs, last, prev, calls, reply, parse>>

ConcNext ==
    \E c \in Callers :
        \/ StepExists(c)
        \/ StepRead(c)
        \/ StepCreate(c)
        \/ StepAppend(c)
        \/ StepCopy(c)
        \/ StepOpen(c)
        \/ StepWrite(c)
        \/ StepSizes(c)

SpecConc == ConcInit /\ [][ConcNext]_vars

-----------------------------------------------------------------------------
(* The page-range grammar, stated on the expression itself *)

\* a non-empty string of decimal digits
IsNumeral(s) == s # <<>> /\ Range(s) \subseteq DigitChars

\* the positions that bound the tokens of e: before it, its commas, after it
TokenCuts(e) == {0, Len(e) + 1} \cup {i \in 1..Len(e) : e[i] = ","}

\* the token of e that starts right after cut c
TokenAfter(e, c) ==
    LET next == CHOOSE d \in TokenCuts(e) :
                    d > c /\ \A x \in TokenCuts(e) : x > c => d <= x
    IN  SubSeq(e, c + 1, next - 1)

\* a dashed pair A-B: exactly one dash, a numeral on each side
IsDashedPair(tok) ==
    /\ Cardinality({i \in 1..Len(tok) : tok[i] = "-"}) = 1
    /\ LET i == CHOOSE j \in 1..Len(tok) : tok[j] = "-"
       IN  IsNumeral(SubSeq(tok, 1, i - 1)) /\ IsNumeral(SubSeq(tok, i + 1, Len(tok)))

PairLow(tok) ==
    DigitsValue(SubSeq(tok, 1, (CHOOSE j \in 1..Len(tok) : tok[j] = "-") - 1))

PairHigh(tok) ==
    DigitsValue(SubSeq(tok, (CHOOSE j \in 1..Len(tok) : tok[j] = "-") + 1, Len(tok)))

\* N with 1 <= N <= n, or A-B with 1 <= A <= B <= n
WellFormedToken(tok, n) ==
    \/ IsNumeral(tok) /\ 1 <= DigitsValue(tok) /\ DigitsValue(tok) <= n
    \/ IsDashedPair(tok) /\ 1 <= PairLow(tok) /\ PairLow(tok) <= PairHigh(tok)
                         /\ PairHigh(tok) <= n

WellFormedExpr(e, n) ==
    \A c \in TokenCuts(e) \ {Len(e) + 1} : WellFormedToken(TokenAfter(e, c), n)

\* N expands to [N], A-B to [A..B]
TokenPages(tok) ==
    IF IsNumeral(tok) THEN <<DigitsValue(tok)>>
    ELSE [i \in 1..(PairHigh(tok) - PairLow(tok) + 1) |-> PairLow(tok) + i - 1]

RECURSIVE ExpansionFrom(_, _)
\* the tokens from cut c on, expanded left to right and concatenated
ExpansionFrom(e, c) ==
    IF c = Len(e) + 1 THEN <<>>
    ELSE LET tok == TokenAfter(e, c)
         IN  TokenPages(tok) \o ExpansionFrom(e, c + Len(tok) + 1)

Expansion(e) == ExpansionFrom(e, 0)

\* the value a message carries in the hole named h, <<>> when it has no such hole
HoleValues(msg, h) == {msg.args[i][2] : i \in {j \in 1..Len(msg.args) : msg.args[j][1] = h}}

\* C3: a well-formed range expression parses to its tokens' expansions,
\* concatenated left to right with order and duplicates kept, and every page
\* number any parse returns lies in [1, total_pages].
C3_WellFormedExpands ==
    parse.done =>
        /\ WellFormedExpr(parse.expr, parse.total) =>
               /\ parse.result.ok
               /\ parse.result.pages = Expansion(parse.expr)
        /\ parse.result.ok =>
               \A i \in 1..Len(parse.result.pages) :
                   1 <= parse.result.pages[i] /\ parse.result.pages[i] <= parse.total

\* "1-3,5,7-9" against 10 pages has been parsed to [1,2,3,5,7,8,9]
C3_Witness ==
    /\ parse.done
    /\ parse.expr = SampleExpr
    /\ parse.total = 10
    /\ WellFormedExpr(parse.expr, parse.total)
    /\ parse.result.ok
    /\ parse.result.pages = <<1, 2, 3, 5, 7, 8, 9>>

\* the message names the offending expression: the expression, the failing
\* part of it, or the page number that part resolves to
NamesExpression(msg, expr) ==
    \E v \in HoleValues(msg, "part") \cup HoleValues(msg, "page")
             \cup HoleValues(msg, "literal") :
        \/ v = expr
        \/ \E c \in TokenCuts(RemoveChar(expr, " ")) \ {Len(RemoveChar(expr, " ")) + 1} :
               LET tok == TokenAfter(RemoveChar(expr, " "), c)
               IN  v = tok \/ (PyInt(tok).ok /\ v = IntToStr(PyInt(tok).val))

NamesTotalPages(msg, total) == IntToStr(total) \in HoleValues(msg, "total_pages")

\* C4: every failure to parse a range expression is a ValueError whose message
\* names the offending expression and the document's total page count.
C4_FailureNamesExprAndTotal ==
    (parse.done /\ ~parse.result.ok) =>
        /\ parse.result.exc = "ValueError"
        /\ NamesExpression(parse.result.msg, parse.expr)
        /\ NamesTotalPages(parse.result.msg, parse.total)

-----------------------------------------------------------------------------
(* Claims about merge_pdfs *)

\* the page sequence a path held before the last call
PagesBefore(call, p) == call.pre[p].pages

\* every path of the call's input list was a document on disk before the call
InputsWereDocuments(call) ==
    \A i \in 1..Len(call.inputs) :
        call.inputs[i] \in DOMAIN call.pre /\ call.pre[call.inputs[i]].kind = "pdf"

RECURSIVE PagesUpTo(_, _)
\* how many pages the first i inputs of the call held together
PagesUpTo(call, i) ==
    IF i = 0 THEN 0
    ELSE PagesUpTo(call, i - 1) + Len(PagesBefore(call, call.inputs[i]))

\* C1: merging existing documents writes their page sequences one after the
\* other, in the order the inputs were given, a repeated input repeated; the
\* output has as many pages as the inputs together.
C1_MergeConcatenates ==
    (/\ last.op = "merge_pdfs"
     /\ InputsWereDocuments(last)
     /\ Writable(dirs, last.out)) =>
        /\ last.ok
        /\ last.files = <<last.out>>
        /\ last.out \in DOMAIN fs
        /\ fs[last.out].kind = "pdf"
        /\ Len(fs[last.out].pages) = PagesUpTo(last, Len(last.inputs))
        /\ \A i \in 1..Len(last.inputs) :
               \A k \in 1..Len(PagesBefore(last, last.inputs[i])) :
                   fs[last.out].pages[PagesUpTo(last, i - 1) + k]
                       = PagesBefore(last, last.inputs[i])[k]

\* a.pdf, four pages, has been merged with itself into an eight-page o.pdf
C1_Witness ==
    /\ last.op = "merge_pdfs"
    /\ last.ok
    /\ last.inputs = <<FileA, FileA>>
    /\ last.out = FileO
    /\ PagesBefore(last, FileA) = <<"p1", "p2", "p3", "p4">>
    /\ fs[FileO].pages = <<"p1", "p2", "p3", "p4", "p1", "p2", "p3", "p4">>

\* the positions of the call's inputs that were not on disk before the call
MissingInputs(call) ==
    {i \in 1..Len(call.inputs) : call.inputs[i] \notin DOMAIN call.pre}

\* C6: a merge with a missing input raises FileNotFoundError naming the first
\* missing path in list order, before any input is opened and with the disk,
\* the output path included, left as it was.
C6_MissingInputFailsFirst ==
    (last.op = "merge_pdfs" /\ MissingInputs(last) # {}) =>
        /\ ~last.ok
        /\ last.exc = "FileNotFoundError"
        /\ \E i \in MissingInputs(last) :
               /\ \A j \in MissingInputs(last) : i <= j
               /\ HoleValues(last.msg, "file_path") = {last.inputs[i]}
        /\ last.opened = <<>>
        /\ last.written = <<>>
        /\ fs = last.pre

\* a merge of [n.pdf, in/b.pdf, m.pdf] into the existing a.pdf has failed
\* naming n.pdf, and a.pdf is as before
C6_Witness ==
    /\ last.op = "merge_pdfs"
    /\ last.inputs = <<MissingN, FileB, MissingM>>
    /\ last.out = FileA
    /\ ~last.ok
    /\ HoleValues(last.msg, "file_path") = {MissingN}
    /\ FileA \in DOMAIN last.pre
    /\ fs[FileA] = last.pre[FileA]

\* C7: after a merge, successful or failed, every file listed in the inputs
\* holds the page sequence it held before the call.
C7_MergeLeavesInputs ==
    last.op = "merge_pdfs" =>
        \A i \in 1..Len(last.inputs) :
            last.inputs[i] \in DOMAIN last.pre =>
                /\ last.inputs[i] \in DOMAIN fs
                /\ fs[last.inputs[i]].pages = PagesBefore(last, last.inputs[i])

-----------------------------------------------------------------------------
(* Claims about split_pdf *)

\* the document the split read
SplitSource(call) == call.pre[call.inputs[1]].pages

\* the split was given a document to read and a directory it can make
SplitCanStart(call) ==
    /\ call.op = "split_pdf"
    /\ call.inputs[1] \in DOMAIN call.pre
    /\ call.pre[call.inputs[1]].kind = "pdf"
    /\ call.out \notin DOMAIN call.pre

\* the outcome of parsing the i-th range expression of the call
ParsedRange(call, i) == _parse_page_range(call.ranges[i], Len(SplitSource(call)))

\* the positions of the range expressions of the call that do not parse
FailingRanges(call) == {i \in 1..Len(call.ranges) : ~ParsedRange(call, i).ok}

\* <output_dir>/<input basename without extension>_part<i>.pdf
NamedPart(call, i) ==
    call.out \o <<"/">> \o SplitextRoot(Basename(call.inputs[1]))
        \o <<"_", "p", "a", "r", "t">> \o IntToStr(i) \o <<".", "p", "d", "f">>

\* C2: when every range expression parses, split returns one path per range in
\* the order of the ranges, the i-th named <output_dir>/<basename>_part<i>.pdf
\* and holding exactly the pages of the i-th parsed range, repeats repeated.
C2_SplitWritesEachRange ==
    (SplitCanStart(last) /\ FailingRanges(last) = {}) =>
        /\ last.ok
        /\ Len(last.files) = Len(last.ranges)
        /\ \A i \in 1..Len(last.ranges) :
               /\ last.files[i] = NamedPart(last, i)
               /\ last.files[i] \in DOMAIN fs
               /\ Len(fs[last.files[i]].pages) = Len(ParsedRange(last, i).pages)
               /\ \A k \in 1..Len(ParsedRange(last, i).pages) :
                      fs[last.files[i]].pages[k]
                          = SplitSource(last)[ParsedRange(last, i).pages[k]]

\* "2,2" on the four-page a.pdf has given out/a_part1.pdf: page 2 twice
C2_Witness ==
    /\ SplitCanStart(last)
    /\ last.ok
    /\ last.inputs = <<FileA>>
    /\ last.ranges = <<R_2and2>>
    /\ SplitSource(last) = <<"p1", "p2", "p3", "p4">>
    /\ last.files = << <<"o", "u", "t", "/", "a", "_", "p", "a", "r", "t", "1",
                         ".", "p", "d", "f">> >>
    /\ fs[last.files[1]].pages = <<"p2", "p2">>

\* C5: when the k-th range expression is the first that fails to parse, split
\* raises and returns no paths; it has written the parts of ranges 1..k-1, in
\* that order, and nothing else on disk has changed.
C5_SplitStopsAtFirstFailure ==
    (SplitCanStart(last) /\ FailingRanges(last) # {}) =>
        LET k == CHOOSE i \in FailingRanges(last) :
                     \A j \in FailingRanges(last) : i <= j
        IN  /\ ~last.ok
            /\ last.files = <<>>
            /\ last.written = [i \in 1..(k - 1) |-> NamedPart(last, i)]
            /\ \A i \in 1..(k - 1) :
                   fs[NamedPart(last, i)].pages
                       = [n \in 1..Len(ParsedRange(last, i).pages) |->
                             SplitSource(last)[ParsedRange(last, i).pages[n]]]
            /\ \A p \in (DOMAIN fs \cup DOMAIN last.pre)
                            \ {NamedPart(last, i) : i \in 1..(k - 1)} :
                   p \in DOMAIN fs /\ p \in DOMAIN last.pre /\ fs[p] = last.pre[p]

\* ["1", "9", "2"] on the four-page a.pdf has failed at "9": part 1 is
\* written, parts 2 and 3 are not
C5_Witness ==
    /\ SplitCanStart(last)
    /\ last.inputs = <<FileA>>
    /\ last.ranges = <<R_1, R_9, R_2>>
    /\ Len(SplitSource(last)) = 4
    /\ ~last.ok
    /\ last.exc = "ValueError"
    /\ NamedPart(last, 1) \in DOMAIN fs
    /\ NamedPart(last, 2) \notin DOMAIN fs
    /\ NamedPart(last, 3) \notin DOMAIN fs

RECURSIVE RangesFlattened(_, _)
\* the parsed ranges of the call from the i-th on, one after the other
RangesFlattened(call, i) ==
    IF i > Len(call.ranges) THEN <<>>
    ELSE ParsedRange(call, i).pages \o RangesFlattened(call, i + 1)

\* the call before the last was a split whose ranges together are [1..total]
\* and the last call merged the paths it returned, in the order returned
SplitThenMerge ==
    /\ SplitCanStart(prev)
    /\ prev.ok
    /\ FailingRanges(prev) = {}
    /\ RangesFlattened(prev, 1) = [n \in 1..Len(SplitSource(prev)) |-> n]
    /\ last.op = "merge_pdfs"
    /\ last.inputs = prev.files
    /\ Writable(dirs, last.out)

\* C8: splitting a document by ranges that together are [1..total] and merging
\* the returned parts in the returned order gives the document's pages back,
\* in the same number and order.
C8_SplitMergeRoundTrip ==
    SplitThenMerge =>
        /\ last.ok
        /\ fs[last.out].pages = SplitSource(prev)

\* the four-page a.pdf was split by ["1-2", "3-4"] and its two parts merged
C8_Witness ==
    /\ SplitThenMerge
    /\ prev.ranges = <<R_1to2, R_3to4>>
    /\ Len(prev.files) = 2
    /\ SplitSource(prev) = <<"p1", "p2", "p3", "p4">>
    /\ last.ok
    /\ fs[last.out].pages = <<"p1", "p2", "p3", "p4">>

-----------------------------------------------------------------------------
(* Claims about pdf_to_text *)

\* "=== Page n ==="
PageHeader(n) ==
    <<"=", "=", "=", " ", "P", "a", "g", "e", " ">> \o IntToStr(n)
        \o <<" ", "=", "=", "=">>

\* the positions of t at which s occurs
Occurrences(t, s) ==
    {i \in 1..(Len(t) - Len(s) + 1) : SubSeq(t, i, i + Len(s) - 1) = s}

\* the text has a character that is not whitespace
HasInk(text) == \E i \in 1..Len(text) : text[i] \notin WhitespaceChars

\* the pages of the document the last call read whose text has ink
InkedPages(call) ==
    {n \in 1..Len(PagesBefore(call, call.inputs[1])) :
        HasInk(PageText(PagesBefore(call, call.inputs[1])[n]))}

\* C9: the text has one entry for each page with non-blank text and none for
\* the others; the entry of page n is headed "=== Page n ===", n the page's
\* own position, entries come in page order, and the text is empty when every
\* page is blank.
C9_TextEntriesPerInkedPage ==
    (last.op = "pdf_to_text" /\ last.ok) =>
        LET doc == PagesBefore(last, last.inputs[1])
        IN  /\ \A n \in 1..Len(doc) :
                   IF n \in InkedPages(last)
                   THEN \E i \in 1..Len(last.text) :
                            /\ Occurrences(last.text, PageHeader(n)) = {i}
                            /\ i \in Occurrences(last.text,
                                        PageHeader(n) \o <<"\n">> \o PageText(doc[n])
                                            \o <<"\n">>)
                   ELSE Occurrences(last.text, PageHeader(n)) = {}
            /\ Cardinality(Occurrences(last.text, <<"=", "=", "=", " ", "P">>))
                   = Cardinality(InkedPages(last))
            /\ \A n, m \in InkedPages(last) :
                   n < m => \A i \in Occurrences(last.text, PageHeader(n)) :
                                \A j \in Occurrences(last.text, PageHeader(m)) : i < j
            /\ (InkedPages(last) = {}) => last.text = <<>>

\* text was taken from a three-page document whose page 2 is all whitespace:
\* headers 1 and 3, no header 2
C9_Witness ==
    /\ last.op = "pdf_to_text"
    /\ last.ok
    /\ PagesBefore(last, last.inputs[1]) = <<"p1", "p2", "p4">>
    /\ Occurrences(last.text, PageHeader(1)) # {}
    /\ Occurrences(last.text, PageHeader(2)) = {}
    /\ Occurrences(last.text, PageHeader(3)) # {}

-----------------------------------------------------------------------------
(* Claims about image_to_pdf *)

\* C10: no silently-empty success: image_to_pdf given an empty image list
\* fails with a message, and a path image_to_pdf returns is a path it wrote.
C10_NoSilentEmptySuccess ==
    last.op = "image_to_pdf" =>
        /\ last.inputs = <<>> => (~last.ok /\ last.msg # NoMsg)
        /\ last.ok => last.out \in Range(last.written)


-----------------------------------------------------------------------------
(* The results of the UI bridge *)

\* the key under which an operation's successful result carries its payload
PayloadKey(op) ==
    CASE op = "split_pdf" -> "files"
      [] op = "pdf_to_text" -> "text"
      [] OTHER -> "output"

\* C11: whatever its input and whatever the service raises, a UI-bridge
\* operation returns a result and lets no exception out; a failed result holds
\* success = false and an error message and nothing else, a successful one
\* holds success = true, no error, and the payload of its operation: the
\* output path, the list of files, or the text the service returned
C11_BridgeReturnsFlatResult ==
    reply.op # "none" =>
        /\ reply.escaped = ""
        /\ IF reply.success
           THEN /\ reply.called /\ last.op = reply.op /\ last.ok
                /\ "success" \in reply.keys
                /\ "error" \notin reply.keys
                /\ PayloadKey(reply.op) \in reply.keys
                /\ CASE reply.op = "split_pdf" ->
                            reply.files = last.files /\ reply.files # <<>>
                     [] reply.op = "pdf_to_text" -> reply.text = last.text
                     [] OTHER -> reply.output = last.out /\ reply.output # <<>>
           ELSE /\ reply.keys = {"success", "error"}
                /\ reply.error # NoMsg
                /\ reply.output = <<>> /\ reply.files = <<>>
                /\ reply.text = <<>> /\ reply.sizes = <<>>

\* the service refused a file of no bytes, and the bridge returned a failure
C11_Witness ==
    /\ reply.op = "compress_pdf"
    /\ reply.called
    /\ ~reply.success
    /\ last.exc = "EmptyFileError"
    /\ reply.error = last.msg

-----------------------------------------------------------------------------
(* Two calls at once *)

\* the call of a job on its own, from the disk files
Alone(job, files) ==
    IF job.op = "merge_pdfs" THEN merge_pdfs(files, dirs, job.inputs, job.out)
    ELSE compress_pdf(files, dirs, job.inputs[1], job.out)

JobPaths(job) == Range(job.inputs) \cup {job.out}

AllDone == threads.job # <<>> /\ \A c \in Callers : threads.t[c].pc = "done"

DisjointJobs == JobPaths(threads.job[1]) \cap JobPaths(threads.job[2]) = {}

\* both calls write the same path, and neither reads it
SameOutput ==
    /\ threads.job[1].out = threads.job[2].out
    /\ \A c \in Callers : threads.job[c].out \notin Range(threads.job[c].inputs)

\* caller c's call ended as the same call made alone ends: the same result or
\* the same exception, and the same files at the paths of the call
AsAlone(c) ==
    LET job == threads.job[c]
        st == threads.t[c]
        r == Alone(job, threads.pre)
    IN  /\ st.ok = r.ok /\ st.exc = r.exc /\ st.msg = r.msg /\ st.files = r.files
        /\ \A p \in JobPaths(job) :
               /\ p \in DOMAIN fs <=> p \in DOMAIN r.fs
               /\ p \in DOMAIN fs => fs[p] = r.fs[p]

\* C12: two calls made at once on disjoint paths end, however their file reads
\* and writes interleave, with the results and the files each has when it
\* runs alone; two calls made at once on the same output path are not kept
\* apart by the service, and the path ends up holding the document of the
\* call that wrote last
C12_ConcurrentCallsIndependent ==
    AllDone =>
        /\ DisjointJobs => \A c \in Callers : AsAlone(c)
        /\ (SameOutput /\ threads.writes # <<>>) =>
               LET w == threads.writes[Len(threads.writes)]
               IN  /\ fs[threads.job[1].out] = w.doc
                   /\ w.doc = Alone(threads.job[w.by], threads.pre).fs[threads.job[1].out]

\* a merge and a compression on disjoint paths both returned, the steps of
\* the one between the steps of the other
C12_Witness ==
    /\ AllDone
    /\ DisjointJobs
    /\ threads.job[1].op = "merge_pdfs"
    /\ threads.job[2].op = "compress_pdf"
    /\ \A c \in Callers : threads.t[c].ok
    /\ threads.writes[1].by = 2
    /\ fs[FileO].pages # fs[FileP].pages

-----------------------------------------------------------------------------
(* Compression *)

\* the file compress_pdf was called on held a document
CompressedDocument(call) ==
    /\ call.op = "compress_pdf"
    /\ call.inputs[1] \in DOMAIN call.pre
    /\ call.pre[call.inputs[1]].kind = "pdf"

\* C13: whenever compress_pdf is called on a readable document and the output
\* can be opened, it writes the output path, and the document there has the
\* pages the input had before the call: as many, and in the same order
C13_CompressKeepsPages ==
    (CompressedDocument(last) /\ Writable(dirs, last.out)) =>
        /\ last.written = <<last.out>>
        /\ Len(fs[last.out].pages) = Len(last.pre[last.inputs[1]].pages)
        /\ fs[last.out].pages = last.pre[last.inputs[1]].pages

\* a document of two different pages was compressed to another path
C13_Witness ==
    /\ CompressedDocument(last)
    /\ last.ok
    /\ last.out # last.inputs[1]
    /\ Len(fs[last.out].pages) = 2
    /\ fs[last.out].pages[1] # fs[last.out].pages[2]
    /\ fs[last.out].size # last.pre[last.inputs[1]].size

\* C14: a call of compress on a file whose size is zero bytes ends in an error
\* that is not the fault of the division by the original size: the service
\* raises some other exception and has written nothing, and the UI bridge
\* returns no result holding the division's message or an original size of 0
C14_ZeroSizeIsAnExplicitError ==
    /\ ( /\ last.op = "compress_pdf"
         /\ last.inputs[1] \in DOMAIN last.pre
         /\ last.pre[last.inputs[1]].size = 0 ) =>
            /\ ~last.ok
            /\ last.exc # "ZeroDivisionError"
            /\ last.written = <<>>
    /\ reply.op = "compress_pdf" =>
            /\ reply.error # DivisionMsg
            /\ reply.success => reply.sizes[1] # 0

-----------------------------------------------------------------------------
(* Whitespace in a range expression *)

\* the expression with its spaces, tabs and newlines taken out
WithoutWhitespace(e) == SelectSeq(e, LAMBDA c : c \notin {" ", "\t", "\n"})

\* the same page sequence, or a failure in both cases
SameOutcome(r1, r2) == r1.ok = r2.ok /\ (r1.ok => r1.pages = r2.pages)

\* C15: an expression parses as the expression it is made from by inserting
\* spaces, tabs and newlines: the call on the expression has the outcome of
\* the call on the expression with all of its whitespace taken out
C15_WhitespaceIsIgnored ==
    parse.done =>
        SameOutcome(parse.result,
                    _parse_page_range(WithoutWhitespace(parse.expr), parse.total))

====
